---------------------------- MODULE Spec2Model ----------------------------
(***************************************************************************)
(* Model of the particle explosion (src/src/explosion.ts) and of the       *)
(* encounter controller / effect simulator that drives it.                 *)
(*                                                                         *)
(* Numbers.  The program computes in IEEE doubles (positions are stored    *)
(* in a Float32Array).  The model uses fixed-point integers:               *)
(*   - opacity is counted in units of 10^-7, so opacity 1 is 10000000 and  *)
(*     the alive threshold 0.01 is 100000;  x * 0.99 is (x * 99) \div 100. *)
(*     With that scale the first product 0.99^n that is <= 0.01 is the     *)
(*     459th, as it is in double arithmetic.                               *)
(*   - positions and velocities are counted in units of 10^-4, so the      *)
(*     gravity constant 0.01 is 100 and x * 0.98 is (x * 98) \div 100.     *)
(* Sequences are 1-based: element i of a JavaScript array is element i+1   *)
(* of the sequence that models it.                                         *)
(* The colour attribute of the geometry is written once by the constructor *)
(* and never read again; it is left out.                                   *)
(***************************************************************************)
EXTENDS Integers, Sequences, FiniteSets, TLC

VARIABLES
    expl,           \* the Explosion objects, by identity
    calls,          \* per Explosion: number of update() calls made so far
    ret,            \* per Explosion: what the last update() call returned
    activeBursts,   \* EffectSimulator: the explosions advanced every frame
    target,         \* EncounterController: "Absent" or "Present"
    pendingRespawn, \* EncounterController: << >>, or <<time left to the respawn>>
    score,          \* EncounterController: the score counter
    lastOp,         \* the last controller operation and its result
    targetsInScene, \* number of target objects in the scene
    sinceHit,       \* time run since the last hit while its respawn was pending
    viewer,         \* Viewer: its fields, the scene, document.body, the frame loop
    request,        \* GLTFLoader: per load "pending", "loaded" or "failed"
    removals,       \* per loading element: times it was taken out of the document
    lastCallback    \* Viewer: the callback that ran last

vars == <<expl, calls, ret, activeBursts, target, pendingRespawn, score, lastOp,
          targetsInScene, sinceHit, viewer, request, removals, lastCallback>>

viewerVars == <<viewer, request, removals, lastCallback>>

gameVars == <<activeBursts, target, pendingRespawn, score, lastOp,
              targetsInScene, sinceHit>>

---------------------------------------------------------------------------
(* Bounds of the model *)

\* update() calls followed per Explosion object
MaxCalls == 8

\* number of different outcomes of the Math.random() draws of one constructor
NumSeeds == 3

\* hits followed in one session
MaxHits == 3

\* animation frames followed in the Viewer
MaxFrames == 3

\* identities of the Explosion objects that can exist at the same time
ExplosionIds == {1, 2}

\* frame deltas handed to update(delta) and tick(dt), in milliseconds
Deltas == {500, 1000}

\* progress events (xhr.loaded, xhr.total) of a download; total is 0 when
\* the length of the download is not known
ProgressEvents ==
    { [loaded |-> 1, total |-> 3], [loaded |-> 2, total |-> 3],
      [loaded |-> 1, total |-> 0] }

\* gltf.animations.length of the enemy model
AnimationCounts == {0, 1}

\* points (x, y, z) at which an explosion is created
Points == { <<10000, 0, 20000>>, <<0, 5000, -30000>> }

---------------------------------------------------------------------------
(* Constants of the program *)

particleCount == 100

\* opacity: 1 of the PointsMaterial
InitialOpacity == 10000000

\* this.material.opacity *= 0.99
OpacityDecay == 99

\* if (this.material.opacity > 0.01)
AliveThreshold == 100000

\* velocity.y -= 0.01
Gravity == 100

\* velocity.multiplyScalar(0.98)
Damping == 98

\* (Math.random() - 0.5) * 0.3 lies in [-0.15, 0.15)
VelocityHalfRange == 1500

NoExplosion == [none |-> TRUE]

NoReturn == "none"

(* The return value of update, as recorded in ret *)
Returned(b) == IF b THEN "true" ELSE "false"

---------------------------------------------------------------------------
(* THREE.Vector3.multiplyScalar: every component times s (s in hundredths) *)
multiplyScalar(v, s) ==
    [x |-> (v.x * s) \div 100, y |-> (v.y * s) \div 100, z |-> (v.z * s) \div 100]

(* The k-th Math.random()-based velocity component drawn by a constructor  *)
(* whose random stream is `seed`: a value of [-0.15, 0.15).                *)
RandomVelocity(seed, k) ==
    ((seed * 1009 + k * 577) % (2 * VelocityHalfRange)) - VelocityHalfRange

(* Constructor mutant: the particles start at the scene origin, not at     *)
(* `position`.                                                             *)
ConstructorAtOrigin(position, seed) ==
    [ positions  |-> [k \in 1..(particleCount * 3) |-> 0],
      velocities |-> [i \in 1..particleCount |->
                        [x |-> RandomVelocity(seed, 3 * (i - 1)),
                         y |-> RandomVelocity(seed, 3 * (i - 1) + 1),
                         z |-> RandomVelocity(seed, 3 * (i - 1) + 2)]],
      opacity    |-> InitialOpacity,
      isActive   |-> TRUE,
      parent     |-> "scene",
      geometryDisposed |-> FALSE,
      materialDisposed |-> FALSE ]

(* Constructor mutant: the velocity of the last particle is never pushed.  *)
ConstructorShortVelocities(position, seed) ==
    [ positions  |-> [k \in 1..(particleCount * 3) |-> position[((k - 1) % 3) + 1]],
      velocities |-> [i \in 1..(particleCount - 1) |->
                        [x |-> RandomVelocity(seed, 3 * (i - 1)),
                         y |-> RandomVelocity(seed, 3 * (i - 1) + 1),
                         z |-> RandomVelocity(seed, 3 * (i - 1) + 2)]],
      opacity    |-> InitialOpacity,
      isActive   |-> TRUE,
      parent     |-> "scene",
      geometryDisposed |-> FALSE,
      materialDisposed |-> FALSE ]

(* new Explosion(scene, position): the object after construction          *)
Constructor(position, seed) ==
    [ positions  |-> [k \in 1..(particleCount * 3) |-> position[((k - 1) % 3) + 1]],
      velocities |-> [i \in 1..particleCount |->
                        [x |-> RandomVelocity(seed, 3 * (i - 1)),
                         y |-> RandomVelocity(seed, 3 * (i - 1) + 1),
                         z |-> RandomVelocity(seed, 3 * (i - 1) + 2)]],
      opacity    |-> InitialOpacity,
      isActive   |-> TRUE,
      parent     |-> "scene",
      geometryDisposed |-> FALSE,
      materialDisposed |-> FALSE ]

(* Fade-out mutant: the opacity fades in (+= 0.01) instead of out.         *)
FadeOutGrows(opacity) == opacity + AliveThreshold

(* Fade-out mutant: the opacity is left as it is.                          *)
FadeOutNever(opacity) == opacity

(* this.material.opacity *= 0.99                                           *)
FadeOut(opacity) == (opacity * OpacityDecay) \div 100

(* Loop-body mutant: the velocity is changed before the position is moved, *)
(* and the move is scaled by delta (milliseconds).                         *)
LoopBodyVelocityFirst(e, i, st, delta) ==
    LET v1  == [e.velocities[(i \div 3) + 1] EXCEPT !.y = @ - Gravity]
        velocity == multiplyScalar(v1, Damping)
        opacity  == FadeOut(st.opacity)
    IN  [ pos      |-> << e.positions[i + 1] + (velocity.x * delta) \div 1000,
                          e.positions[i + 2] + (velocity.y * delta) \div 1000,
                          e.positions[i + 3] + (velocity.z * delta) \div 1000 >>,
          velocity |-> velocity,
          opacity  |-> opacity,
          alive    |-> st.alive \/ (opacity > AliveThreshold) ]

(* Loop-body mutant: a particle that is still in view keeps the burst     *)
(* alive.                                                                  *)
LoopBodyAliveByPosition(e, i, st, delta) ==
    LET velocity == e.velocities[(i \div 3) + 1]
        v1  == [velocity EXCEPT !.y = @ - Gravity]
        v2  == multiplyScalar(v1, Damping)
        opacity == FadeOut(st.opacity)
    IN  [ pos      |-> << e.positions[i + 1] + velocity.x,
                          e.positions[i + 2] + velocity.y,
                          e.positions[i + 3] + velocity.z >>,
          velocity |-> v2,
          opacity  |-> opacity,
          alive    |-> st.alive \/ (opacity > AliveThreshold)
                               \/ (e.positions[i + 1] + velocity.x > 9000) ]

(* One iteration of the for loop of update, for array index i (0, 3, ...), *)
(* entered with the material opacity and the alive flag of st.  It writes  *)
(* positions[i .. i+2] (pos), velocities[i / 3] (velocity), the material   *)
(* opacity and the alive flag.                                             *)
LoopBody(e, i, st, delta) ==
    LET velocity == e.velocities[(i \div 3) + 1]
        v1  == [velocity EXCEPT !.y = @ - Gravity]
        v2  == multiplyScalar(v1, Damping)
        opacity == FadeOut(st.opacity)
    IN  [ pos      |-> << e.positions[i + 1] + velocity.x,
                          e.positions[i + 2] + velocity.y,
                          e.positions[i + 3] + velocity.z >>,
          velocity |-> v2,
          opacity  |-> opacity,
          alive    |-> st.alive \/ (opacity > AliveThreshold) ]

(* The one element of a one-element set.  { F(x) : x \in {v} } evaluates v *)
(* once and names it x, however often F uses it.                           *)
TheOne(S) == CHOOSE r \in S : TRUE

(* The opacity and the alive flag an iteration leaves to the next one      *)
Carried(it) == [opacity |-> it.opacity, alive |-> it.alive]

(* for (let i = 0; i < positions.length; i += 3) { ... }: what each        *)
(* iteration wrote, in order; the loop is entered with alive = false.      *)
(* Span(st, lo, hi) is the run of the iterations lo .. hi (the array       *)
(* indices 3*lo .. 3*hi) entered with the opacity and alive flag of st;    *)
(* it is evaluated by halves, first half first, the second half entered    *)
(* with what the first half left.                                          *)
Iterations(e, delta) ==
    LET RECURSIVE Span(_, _, _)
        Span(st, lo, hi) ==
            IF lo > hi THEN << >>
            ELSE IF lo = hi THEN << LoopBody(e, 3 * lo, st, delta) >>
            ELSE TheOne({ first \o Span(Carried(first[Len(first)]),
                                        ((lo + hi) \div 2) + 1, hi) :
                          first \in { Span(st, lo, (lo + hi) \div 2) } })
    IN  Span([opacity |-> e.opacity, alive |-> FALSE], 0,
             ((Len(e.positions) + 2) \div 3) - 1)

(* The object after the loop wrote `its`, and the value update returns     *)
AfterLoop(e, its) ==
    LET n     == Len(its)
        alive == IF n = 0 THEN FALSE ELSE its[n].alive
        e1 == [e EXCEPT
                 !.positions  = [k \in DOMAIN e.positions |->
                                    its[((k - 1) \div 3) + 1].pos[((k - 1) % 3) + 1]],
                 !.velocities = [p \in DOMAIN e.velocities |->
                                    IF p <= n THEN its[p].velocity ELSE e.velocities[p]],
                 !.opacity    = IF n = 0 THEN e.opacity ELSE its[n].opacity]
    IN  IF ~alive
        THEN [obj |-> [e1 EXCEPT !.isActive = FALSE], result |-> FALSE]
        ELSE [obj |-> e1, result |-> TRUE]

(* update mutant: the early return of an inactive explosion is missing.    *)
updateWithoutEarlyReturn(e, delta) ==
    TheOne({ AfterLoop(obj, its) : obj \in {e}, its \in { Iterations(e, delta) } })

(* Explosion.update(delta): the object after the call and the value        *)
(* returned.                                                               *)
update(e, delta) ==
    IF ~e.isActive
    THEN [obj |-> e, result |-> FALSE]
    ELSE TheOne({ AfterLoop(obj, its) : obj \in {e}, its \in { Iterations(e, delta) } })

(* dispose mutant: the points stay attached to the scene.                  *)
disposeKeepsParent(e) ==
    [e EXCEPT !.geometryDisposed = TRUE, !.materialDisposed = TRUE]

(* Explosion.dispose()                                                     *)
dispose(e) ==
    [e EXCEPT !.geometryDisposed = TRUE, !.materialDisposed = TRUE, !.parent = "null"]

---------------------------------------------------------------------------
(* EncounterController and EffectSimulator.  Their code (the click handler *)
(* and the frame loop that own the Explosion objects) is not among the     *)
(* source files; they are modelled from the specification document.        *)

\* the score reward of one hit
Reward == 100

\* the respawn delay, in milliseconds
RespawnDelay == 2000

\* the ray of a click that meets no geometry
NoIntersection == << >>

(* What a ray can report: no intersection, or the point of intersection    *)
(* with the target's geometry.                                             *)
Rays == {NoIntersection} \cup Points

(* resolveHit mutant: the presence of the target is not looked at.         *)
HitResultIgnoresTarget(tgt, ray) ==
    IF ray = NoIntersection THEN "Miss" ELSE "Hit"

(* resolveHit: Miss if no target exists or the ray does not intersect      *)
HitResult(tgt, ray) ==
    IF tgt # "Present" \/ ray = NoIntersection THEN "Miss" ELSE "Hit"

(* EncounterController.tick: the respawn timer after dt more milliseconds  *)
TimerAfter(pending, dt) ==
    IF pending = << >> THEN << >>
    ELSE IF pending[1] - dt <= 0 THEN << >>
    ELSE << pending[1] - dt >>

(* tick mutant: the respawn fires one frame before its deadline.           *)
TimerFiresEarly(pending, dt) ==
    pending # << >> /\ pending[1] - dt <= dt

(* EncounterController.tick: whether the respawn fires in this tick        *)
TimerFires(pending, dt) ==
    pending # << >> /\ pending[1] - dt <= 0

(* The spawn guard: a spawn request is ignored while a target is present   *)
SpawnTarget(tgt) == "Present"

(* spawn mutant: a target object is added even when one is present.        *)
TargetsAfterSpawnUnguarded(tgt, n) == n + 1

(* The target objects in the scene after a spawn request: a request that   *)
(* finds a target present adds nothing.                                    *)
TargetsAfterSpawn(tgt, n) == IF tgt = "Present" THEN n ELSE n + 1

(* The outcome of the Math.random() draws of the burst of the n-th hit:    *)
(* successive bursts draw different velocities.                            *)
HitSeed(sc) == ((sc \div Reward) % NumSeeds) + 1

(* EffectSimulator.advance on one active burst: update it, and release it  *)
(* in the same tick if update reports it not alive.                        *)
AdvanceBurst(e, dt) ==
    TheOne({ IF r.result THEN r ELSE [obj |-> dispose(r.obj), result |-> FALSE] :
             r \in { update(e, dt) } })

---------------------------------------------------------------------------
(* The Viewer of main.ts: two model loads and the frame loop.              *)
(* The camera, lights, controls and tweens take no part in loading and are *)
(* left out; of a loaded model only its identity and place in the scene    *)
(* are kept.                                                               *)

Null == "null"

Loads == {"sofa", "enemy"}

(* the loadingElement of loadSofa and of loadEnemy *)
LoadingElements == {"sofaLoading", "enemyLoading"}

(* The fields of a Viewer before the constructor body has run, with the    *)
(* scene's models, the children of document.body and the frame loop.       *)
NewViewer ==
    [ sofa         |-> Null,
      enemy        |-> Null,
      mixer        |-> Null,
      sceneModels  |-> {},
      body         |-> {},
      textContent  |-> [el \in LoadingElements |-> ""],
      rafPending   |-> FALSE,
      rendered     |-> 0,
      mixerUpdated |-> FALSE ]

(* `${Math.round(progress)}` for progress = (xhr.loaded / xhr.total) * 100 *)
RoundedProgress(xhr) ==
    IF xhr.total = 0
    THEN IF xhr.loaded = 0 THEN "NaN" ELSE "Infinity"
    ELSE ToString((200 * xhr.loaded + xhr.total) \div (2 * xhr.total))

(* Viewer.animate(): asks for the next frame, updates the mixer if there   *)
(* is one, renders.                                                        *)
animate(v) ==
    [v EXCEPT !.rafPending = TRUE,
              !.mixerUpdated = (v.mixer # Null),
              !.rendered = @ + 1]

(* Viewer.loadSofa() up to the call of loader.load                         *)
loadSofa(v) ==
    [v EXCEPT !.textContent["sofaLoading"] = "Loading sofa...",
              !.body = @ \cup {"sofaLoading"}]

(* onLoad mutant: the sofa is added but its loading element stays.         *)
sofaOnLoadKeepsElement(v) ==
    [v EXCEPT !.sofa = "sofa_01.glb",
              !.sceneModels = @ \cup {"sofa_01.glb"}]

(* loadSofa: the onLoad callback                                           *)
sofaOnLoad(v) ==
    [v EXCEPT !.sofa = "sofa_01.glb",
              !.sceneModels = @ \cup {"sofa_01.glb"},
              !.body = @ \ {"sofaLoading"}]

(* loadSofa: the onProgress callback                                       *)
sofaOnProgress(v, xhr) ==
    [v EXCEPT !.textContent["sofaLoading"] =
                  "Loading sofa... " \o RoundedProgress(xhr) \o "%"]

(* loadSofa: the onError callback                                          *)
sofaOnError(v) ==
    [v EXCEPT !.textContent["sofaLoading"] = "Error loading sofa"]

(* Viewer.loadEnemy() up to the call of loader.load                        *)
loadEnemy(v) ==
    [v EXCEPT !.textContent["enemyLoading"] = "Loading enemy...",
              !.body = @ \cup {"enemyLoading"}]

(* loadEnemy: the onLoad callback; the mixer plays the first animation if  *)
(* the model has one.                                                      *)
enemyOnLoad(v, animations) ==
    [v EXCEPT !.enemy = "enemy.glb",
              !.sceneModels = @ \cup {"enemy.glb"},
              !.mixer = IF animations > 0 THEN "playing" ELSE "idle",
              !.body = @ \ {"enemyLoading"}]

(* loadEnemy: the onProgress callback                                      *)
enemyOnProgress(v, xhr) ==
    [v EXCEPT !.textContent["enemyLoading"] =
                  "Loading enemy... " \o RoundedProgress(xhr) \o "%"]

(* loadEnemy: the onError callback                                         *)
enemyOnError(v) ==
    [v EXCEPT !.textContent["enemyLoading"] = "Error loading enemy"]

(* new Viewer(): the constructor starts the frame loop, then both loads    *)
ViewerConstructor == loadEnemy(loadSofa(animate(NewViewer)))

(* the loading elements that left document.body between v and w, counted   *)
RemovalsAfter(count, v, w) ==
    [el \in LoadingElements |->
        count[el] + (IF el \in v.body /\ el \notin w.body THEN 1 ELSE 0)]

---------------------------------------------------------------------------
Init ==
    /\ expl = [id \in ExplosionIds |-> NoExplosion]
    /\ calls = [id \in ExplosionIds |-> 0]
    /\ ret = [id \in ExplosionIds |-> NoReturn]
    /\ activeBursts = {}
    /\ target = "Absent"
    /\ pendingRespawn = << >>
    /\ score = 0
    /\ lastOp = [op |-> "none", result |-> "none", point |-> << >>]
    /\ targetsInScene = 0
    /\ sinceHit = 0
    /\ viewer = ViewerConstructor
    /\ request = [l \in Loads |-> "pending"]
    /\ removals = [el \in LoadingElements |-> 0]
    /\ lastCallback = "constructor"

---------------------------------------------------------------------------
(* Spec: the Explosion class used directly, one object through any order   *)
(* of constructor, update and dispose calls.                               *)

TheExplosion == 1

NewExplosion(id, position, seed) ==
    /\ expl[id] = NoExplosion
    /\ expl' = [expl EXCEPT ![id] = Constructor(position, seed)]
    /\ UNCHANGED <<calls, ret, gameVars, viewerVars>>

Update(id, delta) ==
    /\ expl[id] # NoExplosion
    /\ calls[id] < MaxCalls
    /\ \E r \in { update(expl[id], delta) } :
           /\ expl' = [expl EXCEPT ![id] = r.obj]
           /\ ret' = [ret EXCEPT ![id] = Returned(r.result)]
    /\ calls' = [calls EXCEPT ![id] = @ + 1]
    /\ UNCHANGED <<gameVars, viewerVars>>

Dispose(id) ==
    /\ expl[id] # NoExplosion
    /\ expl' = [expl EXCEPT ![id] = dispose(expl[id])]
    /\ UNCHANGED <<calls, ret, gameVars, viewerVars>>

Next ==
    \/ \E position \in Points, seed \in 1..NumSeeds :
          NewExplosion(TheExplosion, position, seed)
    \/ \E delta \in Deltas : Update(TheExplosion, delta)
    \/ Dispose(TheExplosion)

Spec == Init /\ [][Next]_vars

(* The frame loop calls update once per frame and never stops.             *)
FairSpec == Spec /\ WF_vars(\E delta \in Deltas : Update(TheExplosion, delta))

---------------------------------------------------------------------------
(* PairSpec: two Explosion objects created together and updated once per   *)
(* frame each, with the same delta.                                        *)

NewPair(p1, s1, p2, s2) ==
    /\ \A id \in ExplosionIds : expl[id] = NoExplosion
    /\ expl' = [id \in ExplosionIds |->
                  IF id = 1 THEN Constructor(p1, s1) ELSE Constructor(p2, s2)]
    /\ UNCHANGED <<calls, ret, gameVars, viewerVars>>

FramePair(delta) ==
    /\ \A id \in ExplosionIds : expl[id] # NoExplosion /\ calls[id] < MaxCalls
    /\ \E r \in { [id \in ExplosionIds |-> update(expl[id], delta)] } :
           /\ expl' = [id \in ExplosionIds |-> r[id].obj]
           /\ ret' = [id \in ExplosionIds |-> Returned(r[id].result)]
    /\ calls' = [id \in ExplosionIds |-> calls[id] + 1]
    /\ UNCHANGED <<gameVars, viewerVars>>

PairNext ==
    \/ \E p1 \in Points, p2 \in Points, s1 \in 1..NumSeeds, s2 \in 1..NumSeeds :
          NewPair(p1, s1, p2, s2)
    \/ \E delta \in Deltas : FramePair(delta)

PairSpec == Init /\ [][PairNext]_vars

---------------------------------------------------------------------------
(* GameSpec: the encounter controller and the effect simulator, driven by  *)
(* clicks and frames.                                                      *)

(* The model finished loading (or a further spawn request arrives): the    *)
(* target is spawned unless one is present already.                        *)
SpawnRequest ==
    /\ pendingRespawn = << >>
    /\ target' = SpawnTarget(target)
    /\ targetsInScene' = TargetsAfterSpawn(target, targetsInScene)
    /\ lastOp' = [op |-> "spawn",
                  result |-> IF target = "Present" THEN "ignored" ELSE "spawned",
                  point |-> << >>]
    /\ UNCHANGED <<expl, calls, ret, activeBursts, pendingRespawn, score, sinceHit>>
    /\ UNCHANGED viewerVars

(* A click: resolveHit(ray).  On Hit the target is removed, the score      *)
(* grows, a burst is spawned at the point and the respawn is scheduled.    *)
ResolveHit(ray) ==
    LET result == HitResult(target, ray)
        seed   == HitSeed(score)
    IN  IF result = "Miss"
        THEN /\ lastOp' = [op |-> "resolveHit", result |-> "Miss", point |-> << >>]
             /\ UNCHANGED <<expl, calls, ret, activeBursts, target, pendingRespawn,
                            score, targetsInScene, sinceHit>>
             /\ UNCHANGED viewerVars
        ELSE /\ score < MaxHits * Reward
             /\ \E id \in ExplosionIds \ activeBursts :
                   /\ \A other \in ExplosionIds \ activeBursts : id <= other
                   /\ expl' = [expl EXCEPT ![id] = Constructor(ray, seed)]
                   /\ calls' = [calls EXCEPT ![id] = 0]
                   /\ ret' = [ret EXCEPT ![id] = NoReturn]
                   /\ activeBursts' = activeBursts \cup {id}
             /\ target' = "Absent"
             /\ targetsInScene' = targetsInScene - 1
             /\ score' = score + Reward
             /\ pendingRespawn' = << RespawnDelay >>
             /\ sinceHit' = 0
             /\ lastOp' = [op |-> "resolveHit", result |-> "Hit", point |-> ray]
             /\ UNCHANGED viewerVars

(* One frame: EffectSimulator.advance(dt), then EncounterController.tick(dt) *)
Frame(dt) ==
    /\ \E r \in { [id \in activeBursts |-> AdvanceBurst(expl[id], dt)] } :
           /\ expl' = [id \in ExplosionIds |->
                         IF id \in activeBursts THEN r[id].obj ELSE expl[id]]
           /\ ret' = [id \in ExplosionIds |->
                         IF id \in activeBursts THEN Returned(r[id].result) ELSE ret[id]]
           /\ activeBursts' = {id \in activeBursts : r[id].result}
    /\ calls' = [id \in ExplosionIds |->
                    IF id \in activeBursts THEN calls[id] + 1 ELSE calls[id]]
    /\ pendingRespawn' = TimerAfter(pendingRespawn, dt)
    /\ target' = IF TimerFires(pendingRespawn, dt) THEN SpawnTarget(target) ELSE target
    /\ targetsInScene' = IF TimerFires(pendingRespawn, dt)
                         THEN TargetsAfterSpawn(target, targetsInScene)
                         ELSE targetsInScene
    /\ sinceHit' = IF pendingRespawn # << >> THEN sinceHit + dt ELSE sinceHit
    /\ lastOp' = [op |-> "frame", result |-> "none", point |-> << >>]
    /\ UNCHANGED score
    /\ UNCHANGED viewerVars

GameNext ==
    \/ SpawnRequest
    \/ \E ray \in Rays : ResolveHit(ray)
    \/ \E dt \in Deltas : Frame(dt)

GameSpec == Init /\ [][GameNext]_vars

---------------------------------------------------------------------------
(* ViewerSpec: the Viewer after its construction, driven by the callbacks  *)
(* of the two GLTFLoader requests and by animation frames.  A request      *)
(* reports progress any number of times while it is pending and then       *)
(* completes once, with onLoad or with onError.                            *)

explosionVars == <<expl, calls, ret>>

(* the state after a callback that took the viewer to w                    *)
ViewerStep(w, name) ==
    /\ viewer' = w
    /\ removals' = RemovalsAfter(removals, viewer, w)
    /\ lastCallback' = name
    /\ UNCHANGED <<explosionVars, gameVars>>

SofaProgress(xhr) ==
    /\ request["sofa"] = "pending"
    /\ ViewerStep(sofaOnProgress(viewer, xhr), "sofa.onProgress")
    /\ UNCHANGED request

SofaLoaded ==
    /\ request["sofa"] = "pending"
    /\ request' = [request EXCEPT !["sofa"] = "loaded"]
    /\ ViewerStep(sofaOnLoad(viewer), "sofa.onLoad")

SofaError ==
    /\ request["sofa"] = "pending"
    /\ request' = [request EXCEPT !["sofa"] = "failed"]
    /\ ViewerStep(sofaOnError(viewer), "sofa.onError")

EnemyProgress(xhr) ==
    /\ request["enemy"] = "pending"
    /\ ViewerStep(enemyOnProgress(viewer, xhr), "enemy.onProgress")
    /\ UNCHANGED request

EnemyLoaded(animations) ==
    /\ request["enemy"] = "pending"
    /\ request' = [request EXCEPT !["enemy"] = "loaded"]
    /\ ViewerStep(enemyOnLoad(viewer, animations), "enemy.onLoad")

EnemyError ==
    /\ request["enemy"] = "pending"
    /\ request' = [request EXCEPT !["enemy"] = "failed"]
    /\ ViewerStep(enemyOnError(viewer), "enemy.onError")

(* the browser runs the frame callback that animate asked for              *)
AnimationFrame ==
    /\ viewer.rafPending
    /\ viewer.rendered < MaxFrames
    /\ ViewerStep(animate(viewer), "animate")
    /\ UNCHANGED request

ViewerNext ==
    \/ \E xhr \in ProgressEvents : SofaProgress(xhr)
    \/ SofaLoaded
    \/ SofaError
    \/ \E xhr \in ProgressEvents : EnemyProgress(xhr)
    \/ \E animations \in AnimationCounts : EnemyLoaded(animations)
    \/ EnemyError
    \/ AnimationFrame

ViewerSpec == Init /\ [][ViewerNext]_vars

---------------------------------------------------------------------------
(* Properties *)

Exists(id) == expl[id] # NoExplosion

(* The opacity after k multiplications by 0.99, starting from opacity 1    *)
RECURSIVE DecayedOpacity(_)
DecayedOpacity(k) == IF k = 0 THEN InitialOpacity ELSE FadeOut(DecayedOpacity(k - 1))

(* C1: a tick of update that ends with the burst's opacity at or below the *)
(* alive threshold 0.01 is a tick that reports the burst not alive (update *)
(* returns false); no such tick reports the burst as still alive.          *)
C1_ThresholdTickReportsNotAlive ==
    \A id \in ExplosionIds :
        (Exists(id) /\ calls[id] > 0 /\ expl[id].opacity <= AliveThreshold)
            => ret[id] = "false"

(* C2: every update tick of an active burst multiplies the opacity by 0.99 *)
(* exactly once: after k ticks the opacity of a burst spawned with opacity *)
(* 1 is 0.99^k.                                                            *)
C2_OneDecayPerTick ==
    \A id \in ExplosionIds :
        (Exists(id) /\ ret[id] # "false")
            => expl[id].opacity = DecayedOpacity(calls[id])

C4_OpacityInRangeAndNonIncreasing ==
    [][ \A id \in ExplosionIds :
          /\ (~Exists(id) /\ Exists(id)') => expl'[id].opacity = InitialOpacity
          /\ Exists(id)' => (0 <= expl'[id].opacity /\ expl'[id].opacity <= InitialOpacity)
          /\ (Exists(id) /\ Exists(id)') => expl'[id].opacity <= expl[id].opacity
          /\ (Exists(id) /\ expl[id].isActive) =>
                \A delta \in Deltas :
                   LET its == Iterations(expl[id], delta)
                   IN  \A k \in 1..Len(its) :
                          its[k].opacity <= (IF k = 1 THEN expl[id].opacity
                                                      ELSE its[k - 1].opacity)
      ]_vars

C4_Witness ==
    \E id \in ExplosionIds :
        Exists(id) /\ calls[id] >= 2 /\ expl[id].opacity < InitialOpacity
                   /\ expl[id].opacity > 0

(* C5: the particle count of a burst is the 100 of its construction after  *)
(* any update and dispose calls: 3 position entries and 1 velocity per     *)
(* particle, so every index update reads has a velocity.                   *)
C5_ParticleCountFixed ==
    \A id \in ExplosionIds :
        Exists(id) =>
            /\ Len(expl[id].positions) = 3 * particleCount
            /\ Len(expl[id].velocities) = particleCount
            /\ \A i \in 0..(Len(expl[id].positions) - 1) :
                  (i % 3 = 0) => ((i \div 3) + 1) \in DOMAIN expl[id].velocities

C5_Witness ==
    \E id \in ExplosionIds :
        /\ Exists(id) /\ calls[id] >= 3 /\ expl[id].geometryDisposed
        /\ Len(expl[id].velocities) = particleCount

(* C6: two bursts created together, with any origins and any velocities,   *)
(* report the same alive / not alive result at every tick and turn         *)
(* inactive at the same tick.                                              *)
C6_AliveIndependentOfMotion ==
    (Exists(1) /\ Exists(2)) =>
        /\ calls[1] = calls[2]
        /\ ret[1] = ret[2]
        /\ expl[1].isActive = expl[2].isActive

C6_Witness ==
    /\ Exists(1) /\ Exists(2)
    /\ ret[1] = "false" /\ ret[2] = "false"
    /\ expl[1].positions[1] # expl[2].positions[1]
    /\ expl[1].velocities # expl[2].velocities

(* C7: every burst that is updated once per frame is eventually reported   *)
(* not alive, for any origin and any initial velocities.                   *)
C7_EventuallyNotAlive ==
    \A id \in ExplosionIds : Exists(id) ~> (ret[id] = "false")

C7_Witness ==
    \E id \in ExplosionIds : Exists(id) /\ ret[id] = "false" /\ ~expl[id].isActive

(* C8: an update tick of an active burst moves every particle by the       *)
(* velocity it had before the tick, unscaled by delta, and then replaces   *)
(* that velocity by (vx, vy - 0.01, vz) * 0.98.                            *)
C8_MoveThenGravityThenDamping ==
    [][ \A id \in ExplosionIds :
          (Exists(id) /\ expl[id].isActive /\ calls'[id] = calls[id] + 1) =>
             \A p \in 1..particleCount :
                LET v == expl[id].velocities[p]
                    k == 3 * (p - 1)
                IN  /\ expl'[id].positions[k + 1] = expl[id].positions[k + 1] + v.x
                    /\ expl'[id].positions[k + 2] = expl[id].positions[k + 2] + v.y
                    /\ expl'[id].positions[k + 3] = expl[id].positions[k + 3] + v.z
                    /\ expl'[id].velocities[p].x = (v.x * Damping) \div 100
                    /\ expl'[id].velocities[p].y = ((v.y - Gravity) * Damping) \div 100
                    /\ expl'[id].velocities[p].z = (v.z * Damping) \div 100
      ]_vars

C8_Witness ==
    \E id \in ExplosionIds :
        /\ Exists(id) /\ calls[id] = 2 /\ ret[id] = "true"
        /\ \E p \in 1..particleCount : expl[id].velocities[p].y < -Gravity

(* C9: resolveHit called while no target is present returns Miss and       *)
(* leaves score, bursts, target presence and pending respawn as they were. *)
C9_NoTargetMeansMissAndNoChange ==
    [][ (lastOp'.op = "resolveHit" /\ target # "Present") =>
           /\ lastOp'.result = "Miss"
           /\ UNCHANGED <<score, activeBursts, expl, target, pendingRespawn>>
      ]_vars

(* a Miss right after a Hit, before any frame: the second call of a frame  *)
C9_Witness ==
    /\ lastOp.op = "resolveHit" /\ lastOp.result = "Miss"
    /\ target = "Absent"
    /\ pendingRespawn = << RespawnDelay >>
    /\ score = Reward
    /\ activeBursts # {} /\ \A id \in activeBursts : calls[id] = 0

(* C10: a resolveHit call that returns Hit removes the target, adds        *)
(* exactly the reward to the score, spawns exactly one burst, at the       *)
(* reported point, and schedules exactly one respawn; a call that returns  *)
(* Miss does none of these.                                                *)
C10_HitDoesAllFourEffectsOnce ==
    [][ (lastOp'.op = "resolveHit") =>
           IF lastOp'.result = "Hit"
           THEN /\ target = "Present" /\ target' = "Absent"
                /\ score' = score + Reward
                /\ pendingRespawn = << >> /\ pendingRespawn' = << RespawnDelay >>
                /\ \E id \in ExplosionIds \ activeBursts :
                      /\ activeBursts' = activeBursts \cup {id}
                      /\ \A other \in ExplosionIds \ {id} : expl'[other] = expl[other]
                      /\ Exists(id)'
                      /\ expl'[id].parent = "scene"
                      /\ expl'[id].opacity = InitialOpacity
                      /\ \A p \in 1..particleCount :
                            << expl'[id].positions[3 * p - 2],
                               expl'[id].positions[3 * p - 1],
                               expl'[id].positions[3 * p] >> = lastOp'.point
           ELSE UNCHANGED <<target, score, pendingRespawn, activeBursts, expl>>
      ]_vars

C10_Witness ==
    /\ lastOp.op = "resolveHit" /\ lastOp.result = "Hit"
    /\ score = 2 * Reward
    /\ Cardinality(activeBursts) = 2
    /\ target = "Absent"

(* C13: once update has returned false, every later update call returns   *)
(* false and leaves the positions, velocities and opacity (the whole       *)
(* object) as they were, for any delta; no other call makes the burst      *)
(* reported alive again.                                                   *)
C13_InactiveForGood ==
    [][ \A id \in ExplosionIds :
          (Exists(id) /\ ret[id] = "false") =>
             /\ ret'[id] = "false"
             /\ Exists(id)'
             /\ ~expl'[id].isActive
             /\ expl'[id].positions = expl[id].positions
             /\ expl'[id].velocities = expl[id].velocities
             /\ expl'[id].opacity = expl[id].opacity
      ]_vars

(* two further update calls were made after the one that returned false    *)
C13_Witness ==
    \E id \in ExplosionIds :
        /\ Exists(id) /\ ret[id] = "false" /\ calls[id] = MaxCalls
        /\ ~expl[id].isActive /\ expl[id].opacity <= AliveThreshold

(* C11: a hit schedules one respawn and starts its delay; while less than  *)
(* the respawn delay has run since the hit the target is absent; the first *)
(* frame that brings the time run to the delay or beyond respawns the      *)
(* target, adding exactly one target object and clearing the pending       *)
(* respawn; with no respawn pending a frame adds no target, so the same    *)
(* hit is followed by no second respawn.                                   *)
C11_OneRespawnAtOrAfterDeadline ==
    [][ /\ (lastOp'.op = "resolveHit" /\ lastOp'.result = "Hit")
              => (pendingRespawn' # << >> /\ sinceHit' = 0 /\ target' = "Absent")
        /\ (pendingRespawn' # << >>)
              => (target' = "Absent" /\ targetsInScene' = 0 /\ sinceHit' < RespawnDelay)
        /\ (lastOp'.op = "frame" /\ pendingRespawn # << >> /\ sinceHit' < RespawnDelay)
              => (pendingRespawn' # << >> /\ targetsInScene' = targetsInScene)
        /\ (lastOp'.op = "frame" /\ pendingRespawn # << >> /\ sinceHit' >= RespawnDelay)
              => /\ target' = "Present"
                 /\ targetsInScene' = targetsInScene + 1
                 /\ pendingRespawn' = << >>
        /\ (lastOp'.op = "frame" /\ pendingRespawn = << >>)
              => (target' = target /\ targetsInScene' = targetsInScene
                  /\ pendingRespawn' = << >>)
      ]_vars

(* the second hit's respawn has fired, at the deadline, and frames went on *)
C11_Witness ==
    /\ score = 2 * Reward
    /\ target = "Present" /\ targetsInScene = 1
    /\ pendingRespawn = << >>
    /\ sinceHit >= RespawnDelay
    /\ lastOp.op = "frame"

(* C12: at every moment at most one target object is in the scene, and one *)
(* is there exactly when the controller holds a target as present; a spawn *)
(* request that finds a target present changes nothing of the target, the  *)
(* scene, the score, the pending respawn or the bursts.                    *)
C12_AtMostOneTargetAndSpawnIgnored ==
    [][ /\ targetsInScene' \in {0, 1}
        /\ (target' = "Present") <=> (targetsInScene' = 1)
        /\ (lastOp'.op = "spawn" /\ target = "Present")
              => UNCHANGED <<target, targetsInScene, score, pendingRespawn,
                             activeBursts, expl, calls, ret, sinceHit>>
      ]_vars

(* a spawn request was ignored after the target had been hit and respawned *)
C12_Witness ==
    /\ lastOp.op = "spawn" /\ lastOp.result = "ignored"
    /\ target = "Present" /\ targetsInScene = 1
    /\ score > 0

(* the loading element, the model field and the error text of a load      *)
ElementOf(l) == IF l = "sofa" THEN "sofaLoading" ELSE "enemyLoading"

ModelOf(v, l) == IF l = "sofa" THEN v.sofa ELSE v.enemy

ErrorText(l) == IF l = "sofa" THEN "Error loading sofa" ELSE "Error loading enemy"

(* C14: for each of the two loads, whatever frames, progress callbacks and *)
(* callbacks of the other load come in between: while the load is pending  *)
(* or has failed its loading element is in the document and was never      *)
(* taken out, and the model field is null; once it has succeeded the       *)
(* element is out, taken out exactly once, and the model is in the scene;  *)
(* the element leaves the document only in the load's onLoad callback, the *)
(* one that adds the model to the scene; after a failure the element shows *)
(* the error text, and every frame still renders and asks for the next.    *)
C14_IndicatorUntilLoadedOnceAndKeptOnError ==
    [][ \A l \in Loads :
          LET el == ElementOf(l)
          IN  /\ (request'[l] \in {"pending", "failed"})
                    => /\ el \in viewer'.body
                       /\ removals'[el] = 0
                       /\ ModelOf(viewer', l) = Null
              /\ (request'[l] = "loaded")
                    => /\ el \notin viewer'.body
                       /\ removals'[el] = 1
                       /\ ModelOf(viewer', l) # Null
                       /\ ModelOf(viewer', l) \in viewer'.sceneModels
              /\ (el \in viewer.body /\ el \notin viewer'.body)
                    => /\ lastCallback' = l \o ".onLoad"
                       /\ ModelOf(viewer', l) \in viewer'.sceneModels \ viewer.sceneModels
              /\ (request'[l] = "failed")
                    => /\ viewer'.textContent[el] = ErrorText(l)
                       /\ viewer'.rafPending
              /\ (request[l] = "failed" /\ lastCallback' = "animate")
                    => /\ viewer'.rendered = viewer.rendered + 1
                       /\ viewer'.rafPending
      ]_vars

(* the sofa load succeeded, the enemy load failed, and a frame was         *)
(* rendered after both                                                     *)
C14_Witness ==
    /\ request["sofa"] = "loaded" /\ request["enemy"] = "failed"
    /\ removals["sofaLoading"] = 1 /\ "sofaLoading" \notin viewer.body
    /\ viewer.sofa # Null /\ viewer.enemy = Null /\ viewer.mixer = Null
    /\ viewer.textContent["enemyLoading"] = "Error loading enemy"
    /\ "enemyLoading" \in viewer.body
    /\ lastCallback = "animate" /\ viewer.rendered = MaxFrames

===========================================================================
